---- MODULE Spec2Model ----
(***************************************************************************)
(* Model of src/app.py: the memoized survey pipeline process_survey_file   *)
(* (load, clean, schema inference, duration) and the script that calls it  *)
(* once per rerun for the file held by the uploader.                       *)
(*                                                                         *)
(* Data representation                                                     *)
(*   cell        NaN | Num(n) | Str(s) | Date(t); NaN is the blank cell    *)
(*   sheet       [header, rows]: the first sheet of the workbook; a file's *)
(*               bytes are modelled by the sheet they encode, or Corrupt   *)
(*   DataFrame   [columns, dtypes, rows]; rows are sequences of cells      *)
(*   float       a fraction [num, den]; den = 0 is the float NaN (0/0)     *)
(*   timestamp   seconds since 2024-01-01T00:00, NaT when not parseable    *)
(*                                                                         *)
(* Inputs left out: header cells that are no text (col.lower() raises),    *)
(* boolean cells, and numbers in the timestamp columns (pandas reads them  *)
(* as nanoseconds since 1970).  Float rounding of the fractions is not     *)
(* modelled.                                                               *)
(***************************************************************************)
EXTENDS Integers, Sequences, FiniteSets, TLC

VARIABLES uploaded_file, cache, outcome, last_call

vars == <<uploaded_file, cache, outcome, last_call>>

(***************************************************************************)
(* Bounds of the checked input space.                                      *)
(***************************************************************************)
MaxRows == 2
MaxDistinct == 16

(***************************************************************************)
(* Cells.                                                                  *)
(***************************************************************************)
NaN == [k |-> "nan"]
Num(n) == [k |-> "num", v |-> n]
Str(s) == [k |-> "str", v |-> s]
Date(t) == [k |-> "date", v |-> t]

isnull(c) == c.k = "nan"

Range(s) == {s[i] : i \in 1..Len(s)}

IndexOf(s, x) == CHOOSE i \in 1..Len(s) : s[i] = x

(***************************************************************************)
(* Strings: str.lower() and the substring test `sub in s`.                 *)
(***************************************************************************)
UpperToLower ==
    [A |-> "a", B |-> "b", C |-> "c", D |-> "d", E |-> "e", F |-> "f", G |-> "g",
     H |-> "h", I |-> "i", J |-> "j", K |-> "k", L |-> "l", M |-> "m", N |-> "n",
     O |-> "o", P |-> "p", Q |-> "q", R |-> "r", S |-> "s", T |-> "t", U |-> "u",
     V |-> "v", W |-> "w", X |-> "x", Y |-> "y", Z |-> "z"]

LowerChar(c) == IF c \in DOMAIN UpperToLower THEN UpperToLower[c] ELSE c

RECURSIVE lower(_)
lower(s) ==
    IF Len(s) = 0 THEN ""
    ELSE LowerChar(SubSeq(s, 1, 1)) \o lower(SubSeq(s, 2, Len(s)))

Contains(s, sub) ==
    \E i \in 1..(Len(s) - Len(sub) + 1) : SubSeq(s, i, i + Len(sub) - 1) = sub

(***************************************************************************)
(* pd.read_excel(file_content, sheet_name=0): the header row names the     *)
(* columns, every later row is a record, and each column gets the dtype    *)
(* pandas infers from its cells.  Bytes that are no workbook raise.        *)
(***************************************************************************)
Corrupt == [corrupt |-> TRUE]

IsWorkbook(file_content) == "header" \in DOMAIN file_content

InferDtype(cells) ==
    LET kinds == {c.k : c \in {x \in cells : ~isnull(x)}}
    IN  IF kinds \subseteq {"num"}
          THEN IF \E c \in cells : isnull(c) THEN "float64" ELSE "int64"
        ELSE IF kinds = {"date"} THEN "datetime64"
        ELSE "object"

read_excel(file_content) ==
    [columns |-> file_content.header,
     dtypes  |-> [i \in 1..Len(file_content.header) |->
                    IF Len(file_content.rows) = 0 THEN "object"
                    ELSE InferDtype({file_content.rows[r][i] :
                                        r \in 1..Len(file_content.rows)})],
     rows    |-> file_content.rows]

\* DataFrame.empty: some axis has length zero
df_empty(df) == Len(df.columns) = 0 \/ Len(df.rows) = 0

(***************************************************************************)
(* Cleaning.                                                               *)
(***************************************************************************)
\* dropna over every column: a row with any blank cell goes
dropna_any_blank(df) ==
    [df EXCEPT !.rows =
        SelectSeq(df.rows, LAMBDA row : \A i \in 1..Len(row) : ~isnull(row[i]))]

\* df.dropna(subset=[df.columns[0]], how='all')
dropna(df) ==
    [df EXCEPT !.rows = SelectSeq(df.rows, LAMBDA row : ~isnull(row[1]))]

metadata_cols ==
    {"starttime", "endtime", "deviceimei", "subscriberid",
     "_version_", "_index", "_parent_index", "audit",
     "review_status", "review_comment", "formhub/uuid"}

IsMetadataCol_ignore_case(col) == lower(col) \in metadata_cols

IsMetadataCol(col) == col \in metadata_cols

cols_to_drop(df) == SelectSeq(df.columns, IsMetadataCol)

RECURSIVE KeptIndexes(_, _, _)
KeptIndexes(columns, dropped, i) ==
    IF i > Len(columns) THEN <<>>
    ELSE (IF columns[i] \in dropped THEN <<>> ELSE <<i>>)
         \o KeptIndexes(columns, dropped, i + 1)

\* df.drop(columns=cols, errors='ignore')
drop(df, cols) ==
    LET keep == KeptIndexes(df.columns, Range(cols), 1)
    IN  [columns |-> [j \in 1..Len(keep) |-> df.columns[keep[j]]],
         dtypes  |-> [j \in 1..Len(keep) |-> df.dtypes[keep[j]]],
         rows    |-> [r \in 1..Len(df.rows) |->
                        [j \in 1..Len(keep) |-> df.rows[r][keep[j]]]]]

(***************************************************************************)
(* Schema inference.                                                       *)
(***************************************************************************)
CategoricalThreshold == 15
PercentMin == 0
PercentMax == 100

\* clean_df[col].dropna().unique(), as the set of its distinct values
unique_vals(df, i) ==
    {c \in {df.rows[r][i] : r \in 1..Len(df.rows)} : ~isnull(c)}

YesNoValues == {Num(1), Num(2), Str("1"), Str("2")}
LikertValues == {Num(1), Num(2), Num(3), Num(4), Num(5)}

assumptions_likert_first(vals) ==
    IF vals \subseteq LikertValues THEN <<"Treated as Likert scale">>
    ELSE IF vals \subseteq YesNoValues THEN <<"Assumed 1=Yes, 2=No">>
    ELSE <<>>

\* the notes appended for a categorical column
categorical_assumptions(vals) ==
    IF vals \subseteq YesNoValues THEN <<"Assumed 1=Yes, 2=No">>
    ELSE IF vals \subseteq LikertValues THEN <<"Treated as Likert scale">>
    ELSE <<>>

is_categorical_cardinality_inclusive(n) == n <= CategoricalThreshold

is_categorical_cardinality(n) == n < CategoricalThreshold

is_numeric_dtype(dtype) == dtype \in {"int64", "float64"}

\* Series.min() / Series.max() skip NaN and give NaN when nothing is left;
\* a comparison with NaN is False
min_ge(df, i, bound) ==
    LET vs == {c.v : c \in unique_vals(df, i)}
    IN  vs # {} /\ \A v \in vs : v >= bound

max_le(df, i, bound) ==
    LET vs == {c.v : c \in unique_vals(df, i)}
    IN  vs # {} /\ \A v \in vs : v <= bound

in_percent_range_exclusive(df, i) ==
    min_ge(df, i, PercentMin) /\ max_le(df, i, PercentMax - 1)

in_percent_range(df, i) ==
    min_ge(df, i, PercentMin) /\ max_le(df, i, PercentMax)

is_gps_lat(col_lower) == Contains(col_lower, "lat") \/ Contains(col_lower, "latitude")

is_gps_lon(col_lower) == Contains(col_lower, "lon") \/ Contains(col_lower, "longitude")

\* the ladder with the dtype branches tried before the GPS name checks
col_type_dtype_first(clean_df, i) ==
    LET col_lower == lower(clean_df.columns[i])
        n == Cardinality(unique_vals(clean_df, i))
    IN  IF clean_df.dtypes[i] = "object" /\ n > 0 /\ is_categorical_cardinality(n)
          THEN "categorical"
        ELSE IF is_numeric_dtype(clean_df.dtypes[i]) /\ in_percent_range(clean_df, i)
          THEN "percentage"
        ELSE IF is_gps_lat(col_lower) THEN "gps_lat"
        ELSE IF is_gps_lon(col_lower) THEN "gps_lon"
        ELSE "other"

col_type(clean_df, i) ==
    LET col_lower == lower(clean_df.columns[i])
        n == Cardinality(unique_vals(clean_df, i))
    IN  IF is_gps_lat(col_lower) THEN "gps_lat"
        ELSE IF is_gps_lon(col_lower) THEN "gps_lon"
        ELSE IF clean_df.dtypes[i] = "object"
          THEN IF n = 0 THEN "empty"
               ELSE IF is_categorical_cardinality(n) THEN "categorical"
               ELSE "other"
        ELSE IF is_numeric_dtype(clean_df.dtypes[i])
          THEN IF in_percent_range(clean_df, i) THEN "percentage" ELSE "numeric"
        ELSE "other"

col_assumptions(clean_df, i) ==
    IF col_type(clean_df, i) = "categorical"
      THEN categorical_assumptions(unique_vals(clean_df, i))
      ELSE <<>>

\* Series.isnull().mean(): the mean of an empty series is 0/0
isnull_mean(df, i) ==
    [num |-> Cardinality({r \in 1..Len(df.rows) : isnull(df.rows[r][i])}),
     den |-> Len(df.rows)]

\* 1 - x on floats; 1 - NaN is NaN
OneMinus(x) == [num |-> x.den - x.num, den |-> x.den]

completeness(df, i) == OneMinus(isnull_mean(df, i))

infer_schema(clean_df) ==
    [col \in Range(clean_df.columns) |->
        LET i == IndexOf(clean_df.columns, col)
        IN  [type         |-> col_type(clean_df, i),
             assumptions  |-> col_assumptions(clean_df, i),
             completeness |-> completeness(clean_df, i)]]

(***************************************************************************)
(* Survey duration.                                                        *)
(***************************************************************************)
NaT == [k |-> "nat"]
Timestamp(t) == [k |-> "ts", v |-> t]

Digits == "0123456789"

IsDigit(c) == \E d \in 0..9 : SubSeq(Digits, d + 1, d + 1) = c

DigitVal(c) == CHOOSE d \in 0..9 : SubSeq(Digits, d + 1, d + 1) = c

IsTwoDigits(s, i) == IsDigit(SubSeq(s, i, i)) /\ IsDigit(SubSeq(s, i + 1, i + 1))

TwoDigits(s, i) == 10 * DigitVal(SubSeq(s, i, i)) + DigitVal(SubSeq(s, i + 1, i + 1))

\* The datetime parser on the ISO strings of January 2024,
\* "2024-01-DDTHH:MM" and "2024-01-DDTHH:MM:SS"; any other text is taken
\* as not parseable, which errors='coerce' turns into NaT.
ParseTimestamp(s) ==
    LET shaped ==
            /\ Len(s) \in {16, 19}
            /\ SubSeq(s, 1, 8) = "2024-01-"
            /\ IsTwoDigits(s, 9)
            /\ SubSeq(s, 11, 11) = "T"
            /\ IsTwoDigits(s, 12)
            /\ SubSeq(s, 14, 14) = ":"
            /\ IsTwoDigits(s, 15)
            /\ Len(s) = 19 => (SubSeq(s, 17, 17) = ":" /\ IsTwoDigits(s, 18))
        dd == TwoDigits(s, 9)
        hh == TwoDigits(s, 12)
        mm == TwoDigits(s, 15)
        ss == IF Len(s) = 19 THEN TwoDigits(s, 18) ELSE 0
    IN  IF shaped /\ dd \in 1..31 /\ hh < 24 /\ mm < 60 /\ ss < 60
          THEN Timestamp((((dd - 1) * 24 + hh) * 60 + mm) * 60 + ss)
          ELSE NaT

\* pd.to_datetime(cell, errors='coerce') on blank, datetime and text cells
to_datetime(c) ==
    CASE c.k = "nan"  -> NaT
      [] c.k = "date" -> Timestamp(c.v)
      [] c.k = "str"  -> ParseTimestamp(c.v)

\* (end - start).dt.total_seconds() of one row: NaN when either side is NaT
duration_seconds(start, end) ==
    IF start = NaT \/ end = NaT THEN NaN ELSE Num(end.v - start.v)

is_valid_duration_nonnegative(d) == ~isnull(d) /\ d.v >= 0

\* durations > 0; NaN > 0 is False
is_valid_duration(d) == ~isnull(d) /\ d.v > 0

RECURSIVE SumSeq(_)
SumSeq(s) == IF Len(s) = 0 THEN 0 ELSE Head(s) + SumSeq(Tail(s))

\* a / b rounded to the nearest integer, ties to the even one (a >= 0, b > 0)
RoundHalfEven(a, b) ==
    LET q == a \div b
        r == a % b
    IN  IF 2 * r < b THEN q
        ELSE IF 2 * r > b THEN q + 1
        ELSE IF q % 2 = 0 THEN q ELSE q + 1

\* round(x, 1) of the float x = num / den, as a number of tenths
round1(x) == [num |-> RoundHalfEven(10 * x.num, x.den), den |-> 10]

NoneValue == [none |-> TRUE]

IsNone(x) == DOMAIN x = {"none"}

valid_durations(df) ==
    LET si == IndexOf(df.columns, "starttime")
        ei == IndexOf(df.columns, "endtime")
        durations == [r \in 1..Len(df.rows) |->
                        duration_seconds(to_datetime(df.rows[r][si]),
                                         to_datetime(df.rows[r][ei]))]
        valid == SelectSeq(durations, is_valid_duration)
    IN  [r \in 1..Len(valid) |-> valid[r].v]

duration_info(df) ==
    IF "starttime" \in Range(df.columns) /\ "endtime" \in Range(df.columns)
      THEN LET valid == valid_durations(df)
           IN  IF Len(valid) > 0
                 THEN [avg_minutes |-> round1([num |-> SumSeq(valid),
                                               den |-> 60 * Len(valid)]),
                       count       |-> Len(valid)]
                 ELSE NoneValue
      ELSE NoneValue

(***************************************************************************)
(* process_survey_file: the body that runs on a cache miss.  It returns    *)
(* the pair (result, error).                                               *)
(***************************************************************************)
ErrorMsg(text) == [msg |-> text]

process_survey_file(file_content, file_name) ==
    LET parsed == read_excel(file_content)
        df == dropna(parsed)
        dropped == cols_to_drop(df)
        clean_df == drop(df, dropped)
    IN  IF df_empty(parsed)
          THEN [result |-> NoneValue, error |-> ErrorMsg("Empty file")]
          ELSE [result |-> [raw_df           |-> df,
                            clean_df         |-> clean_df,
                            schema           |-> infer_schema(clean_df),
                            metadata_dropped |-> Len(dropped),
                            duration_info    |-> duration_info(df),
                            filename         |-> file_name],
                error  |-> NoneValue]

(***************************************************************************)
(* The script: the uploader holds at most one file; every rerun calls the  *)
(* cached process_survey_file with the file's bytes and display name.      *)
(* st.cache_data keys an entry by the values of all the arguments of the   *)
(* call and keeps it for the life of the process; a call that raises       *)
(* stores nothing.                                                         *)
(***************************************************************************)
NoFile == [none |-> TRUE]

CacheKey(file_content, file_name) ==
    [file_content |-> file_content, file_name |-> file_name]

Raised == [raised |-> "read_excel"]

Init ==
    /\ uploaded_file = NoFile
    /\ cache = [key \in {} |-> NoneValue]
    /\ outcome = NoneValue
    /\ last_call = "none"

\* the user puts a file into the uploader
Upload(file_content, file_name) ==
    /\ uploaded_file' = [content |-> file_content, name |-> file_name]
    /\ UNCHANGED <<cache, outcome, last_call>>

RunHit ==
    /\ ~IsNone(uploaded_file)
    /\ LET key == CacheKey(uploaded_file.content, uploaded_file.name)
       IN  /\ key \in DOMAIN cache
           /\ outcome' = cache[key]
           /\ last_call' = "hit"
    /\ UNCHANGED <<uploaded_file, cache>>

RunMiss ==
    /\ ~IsNone(uploaded_file)
    /\ IsWorkbook(uploaded_file.content)
    /\ LET key == CacheKey(uploaded_file.content, uploaded_file.name)
           value == process_survey_file(uploaded_file.content, uploaded_file.name)
       IN  /\ key \notin DOMAIN cache
           /\ cache' = [k \in DOMAIN cache \cup {key} |->
                           IF k = key THEN value ELSE cache[k]]
           /\ outcome' = value
           /\ last_call' = "miss"
    /\ UNCHANGED uploaded_file

RunRaise ==
    /\ ~IsNone(uploaded_file)
    /\ ~IsWorkbook(uploaded_file.content)
    /\ outcome' = Raised
    /\ last_call' = "raise"
    /\ UNCHANGED <<uploaded_file, cache>>

\* one run of the script
Run == RunHit \/ RunMiss \/ RunRaise

(***************************************************************************)
(* The files given to the uploader.                                        *)
(***************************************************************************)
Sheet(header, rows) == [header |-> header, rows |-> rows]

T0958 == "2024-01-01T09:58:00"
T1000 == "2024-01-01T10:00:00"
T1000_10 == "2024-01-01T10:00:10"
T1005 == "2024-01-01T10:05:00"

\* the cells a column of the given name takes in the checked sheets
CellDomain(name) ==
    CASE name = "uid"       -> {NaN, Num(1)}
      [] name = "q1"        -> {NaN, Num(1), Num(3), Num(9), Str("1"), Str("3"), Str("yes")}
      [] name = "q2"        -> {NaN, Str("yes")}
      [] name = "score"     -> {NaN, Num(-1), Num(0), Num(50), Num(100), Num(101)}
      [] name = "starttime" -> {NaN, Str(T1000), Str("soon")}
      [] name = "endtime"   -> {NaN, Str(T0958), Str(T1000), Str(T1000_10), Str(T1005)}
      [] name = "visit_date" -> {NaN, Date(0), Str("x")}
      [] name \in {"audit", "Audit"} -> {NaN, Str("m")}
      [] is_gps_lat(lower(name)) \/ is_gps_lon(lower(name))
                            -> {NaN, Num(50), Num(101), Str("x")}
      [] OTHER              -> {Str("m")}

Headers ==
    { <<"uid", "q1">>,
      <<"uid", "score">>,
      <<"uid", "gps_latitude">>,
      <<"uid", "Q1_LAT">>,
      <<"uid", "q1_longitude">>,
      <<"uid", "LON">>,
      <<"uid", "latlon">>,
      <<"uid", "audit", "q2", "Audit">>,
      <<"starttime", "q2">>,
      <<"endtime", "starttime">>,
      <<"uid", "deviceimei", "subscriberid", "_version_", "_index",
        "_parent_index", "review_status", "review_comment", "formhub/uuid",
        "Review_Status", "formhub">>,
      <<"uid", "starttime", "endtime">>,
      <<"uid", "starttime">>,
      <<"uid", "visit_date">> }

RECURSIVE RowsOf(_)
RowsOf(header) ==
    IF Len(header) = 0 THEN {<<>>}
    ELSE {<<c>> \o rest : c \in CellDomain(Head(header)), rest \in RowsOf(Tail(header))}

SmallSheets ==
    UNION {{Sheet(h, rows) : rows \in UNION {[1..n -> RowsOf(h)] : n \in 0..MaxRows}} :
              h \in Headers}

TextPool ==
    <<"a", "b", "c", "d", "e", "f", "g", "h", "i", "j", "k", "l", "m", "n", "o",
      "p", "q", "r", "s", "t">>

\* n answered rows whose q1 column cycles through k distinct texts
TallSheet(n, k) ==
    Sheet(<<"uid", "q1">>,
          [r \in 1..n |-> <<Num(r), Str(TextPool[((r - 1) % k) + 1])>>])

TallSheets == {TallSheet(n, k) : n \in 1..MaxDistinct, k \in 1..MaxDistinct}

BlankSheet == Sheet(<<>>, <<>>)

PipelineFiles == SmallSheets \cup TallSheets \cup {BlankSheet, Corrupt}

CacheFiles ==
    { Sheet(<<"uid", "q1">>, <<<<Num(1), Str("yes")>>>>),
      Sheet(<<"uid", "q1">>, <<<<Num(1), Str("no")>>>>),
      Sheet(<<"uid", "q1">>, <<>>),
      Corrupt }

FileNames == {"survey.xlsx", "copy.xlsx"}

(***************************************************************************)
(* Specifications.                                                         *)
(***************************************************************************)
Next ==
    \/ \E file_content \in CacheFiles, file_name \in FileNames :
          Upload(file_content, file_name)
    \/ Run

Spec == Init /\ [][Next]_vars

\* one file in the uploader from the start, and the script's reruns
InitPipeline ==
    /\ uploaded_file \in {[content |-> f, name |-> "survey.xlsx"] : f \in PipelineFiles}
    /\ cache = [key \in {} |-> NoneValue]
    /\ outcome = NoneValue
    /\ last_call = "none"

NextPipeline == Run

SpecPipeline == InitPipeline /\ [][NextPipeline]_vars

(***************************************************************************)
(* Properties.  Every value process_survey_file has returned is an entry   *)
(* of the cache, next to the bytes it was computed from; the properties    *)
(* relate the two.                                                         *)
(***************************************************************************)
Calls == DOMAIN cache

Sheet_(key) == key.file_content

HasResult(key) == ~IsNone(cache[key].result)

Result(key) == cache[key].result

\* the rows of the sheet whose first cell is not blank, in order
AnsweredRows(sheet) == SelectSeq(sheet.rows, LAMBDA row : row[1] # NaN)

NonBlank(df, i) == {df.rows[r][i] : r \in 1..Len(df.rows)} \ {NaN}

HasLatMarker(col) == Contains(lower(col), "lat")

HasLonMarker(col) == Contains(lower(col), "lon")

\* C1: a sheet with no row left after the rows with a blank first cell are
\* removed makes process_survey_file fail with the empty-input error and
\* return no result.
C1_EmptyAfterCleaningFails ==
    \A key \in Calls :
        Len(AnsweredRows(Sheet_(key))) = 0
            => IsNone(cache[key].result) /\ ~IsNone(cache[key].error)

\* C2: a column whose name contains the latitude marker, in any letter case,
\* is gps_lat whatever its storage and values; one with the longitude marker
\* and no latitude marker is gps_lon.
C2_GpsNameWins ==
    \A key \in Calls : HasResult(key) =>
        \A col \in Range(Result(key).clean_df.columns) :
            /\ HasLatMarker(col) => Result(key).schema[col].type = "gps_lat"
            /\ (HasLonMarker(col) /\ ~HasLatMarker(col))
                   => Result(key).schema[col].type = "gps_lon"

\* a numeric latitude column with every value within [0,100], typed gps_lat
C2_Witness ==
    \E key \in Calls : HasResult(key) /\
        \E i \in 1..Len(Result(key).clean_df.columns) :
            LET df == Result(key).clean_df
            IN  /\ HasLatMarker(df.columns[i])
                /\ df.dtypes[i] \in {"int64", "float64"}
                /\ NonBlank(df, i) # {}
                /\ \A c \in NonBlank(df, i) : c.v >= 0 /\ c.v <= 100
                /\ Result(key).schema[df.columns[i]].type = "gps_lat"

\* C3: whenever a result is returned, the schema has exactly one profile per
\* column of the clean table, and its completeness is a number in [0,1]
\* equal to (rows - blanks) / rows, and to 1.0 when there is no row.
C3_CompletenessDefined ==
    \A key \in Calls : HasResult(key) =>
        LET df == Result(key).clean_df
            n == Len(df.rows)
        IN  /\ DOMAIN Result(key).schema = Range(df.columns)
            /\ \A i \in 1..Len(df.columns) :
                  LET c == Result(key).schema[df.columns[i]].completeness
                      blanks == Cardinality({r \in 1..n : df.rows[r][i] = NaN})
                  IN  /\ c.den > 0
                      /\ 0 <= c.num /\ c.num <= c.den
                      /\ n > 0 => c.num * n = (n - blanks) * c.den
                      /\ n = 0 => c.num = c.den

\* C4: no column named exactly as one of the eleven metadata names is in the
\* clean table or in the schema; every other column, also one that differs
\* from a metadata name only in letter case, is kept.
C4_DenylistRemoved ==
    \A key \in Calls : HasResult(key) =>
        \A col \in Range(Sheet_(key).header) :
            IF col \in metadata_cols
              THEN /\ col \notin Range(Result(key).clean_df.columns)
                   /\ col \notin DOMAIN Result(key).schema
              ELSE /\ col \in Range(Result(key).clean_df.columns)
                   /\ col \in DOMAIN Result(key).schema

\* "audit" is gone and "Audit" is kept
C4_Witness ==
    \E key \in Calls :
        /\ HasResult(key)
        /\ {"audit", "Audit"} \subseteq Range(Sheet_(key).header)
        /\ "audit" \notin Range(Result(key).clean_df.columns)
        /\ "Audit" \in Range(Result(key).clean_df.columns)

\* C5: the memoization key is the content of the bytes alone: the body is
\* never run again for bytes it has already run for, so the cache never
\* holds two entries for the same bytes, whatever the display names.
C5_KeyIsContentAlone ==
    \A k1, k2 \in Calls :
        (HasResult(k1) /\ k1.file_content = k2.file_content) => k1 = k2

\* the instants the checked sheets write, in seconds since midnight
KnownInstant(c) ==
    CASE c = Str(T0958)    -> 35880
      [] c = Str(T1000)    -> 36000
      [] c = Str(T1000_10) -> 36010
      [] c = Str(T1005)    -> 36300
      [] OTHER             -> -1

\* the positive durations, in seconds, of the answered rows of a sheet that
\* has both timestamp columns
PositiveDurations(sheet) ==
    LET si == IndexOf(sheet.header, "starttime")
        ei == IndexOf(sheet.header, "endtime")
        timed == SelectSeq(AnsweredRows(sheet),
                           LAMBDA row : /\ KnownInstant(row[si]) >= 0
                                        /\ KnownInstant(row[ei]) > KnownInstant(row[si]))
    IN  [r \in 1..Len(timed) |-> KnownInstant(timed[r][ei]) - KnownInstant(timed[r][si])]

HasBothTimestamps(sheet) == {"starttime", "endtime"} \subseteq Range(sheet.header)

DurationPresentIffPositiveRow(key) ==
    LET info == Result(key).duration_info
    IN  /\ ~IsNone(info) <=> (/\ HasBothTimestamps(Sheet_(key))
                              /\ Len(PositiveDurations(Sheet_(key))) >= 1)
        /\ ~IsNone(info) =>
              /\ info.count = Len(PositiveDurations(Sheet_(key)))
              /\ info.count >= 1

\* C6 as stated: the summary is present exactly when both timestamp columns
\* exist and some row has a strictly positive duration; valid_count counts
\* those rows, and average_minutes is the mean of their durations in minutes.
C6_AverageIsExactMean ==
    \A key \in Calls : HasResult(key) =>
        /\ DurationPresentIffPositiveRow(key)
        /\ ~IsNone(Result(key).duration_info) =>
              LET info == Result(key).duration_info
              IN  info.avg_minutes.num * 60 * info.count
                      = info.avg_minutes.den * SumSeq(PositiveDurations(Sheet_(key)))

\* C6 amended: as above, with average_minutes the mean rounded to one
\* decimal place, that is a whole number of tenths at most 0.05 from the mean.
C6_AverageIsRoundedMean ==
    \A key \in Calls : HasResult(key) =>
        /\ DurationPresentIffPositiveRow(key)
        /\ ~IsNone(Result(key).duration_info) =>
              LET info == Result(key).duration_info
                  total == SumSeq(PositiveDurations(Sheet_(key)))
                  diff == 6 * info.count * info.avg_minutes.num - total
              IN  /\ info.avg_minutes.den = 10
                  /\ 2 * diff <= 6 * info.count
                  /\ -2 * diff <= 6 * info.count

\* two answered rows with both timestamps, one of them with end = start or
\* end before start, and a summary that counts the other one only
C6_Witness ==
    \E key \in Calls :
        /\ HasResult(key)
        /\ HasBothTimestamps(Sheet_(key))
        /\ LET sheet == Sheet_(key)
               si == IndexOf(sheet.header, "starttime")
               ei == IndexOf(sheet.header, "endtime")
           IN  \E r \in 1..Len(sheet.rows) :
                  /\ sheet.rows[r][1] # NaN
                  /\ KnownInstant(sheet.rows[r][si]) >= 0
                  /\ KnownInstant(sheet.rows[r][ei]) >= 0
                  /\ KnownInstant(sheet.rows[r][ei]) <= KnownInstant(sheet.rows[r][si])
        /\ ~IsNone(Result(key).duration_info)
        /\ Result(key).duration_info.count = 1

\* C7: a textual column without GPS marker is typed by the number d of its
\* distinct non-blank values alone: empty for d = 0, categorical for
\* 1 <= d <= 14, other for d >= 15.
C7_TextualByCardinality ==
    \A key \in Calls : HasResult(key) =>
        LET df == Result(key).clean_df
        IN  \A i \in 1..Len(df.columns) :
                (/\ df.dtypes[i] = "object"
                 /\ ~HasLatMarker(df.columns[i])
                 /\ ~HasLonMarker(df.columns[i]))
                => LET d == Cardinality(NonBlank(df, i))
                       type == Result(key).schema[df.columns[i]].type
                   IN  /\ d = 0 => type = "empty"
                       /\ (1 <= d /\ d <= 14) => type = "categorical"
                       /\ d >= 15 => type = "other"

\* a textual column with exactly 15 distinct values, typed other
C7_Witness ==
    \E key \in Calls : HasResult(key) /\
        LET df == Result(key).clean_df
        IN  \E i \in 1..Len(df.columns) :
                /\ df.dtypes[i] = "object"
                /\ ~HasLatMarker(df.columns[i])
                /\ ~HasLonMarker(df.columns[i])
                /\ Cardinality(NonBlank(df, i)) = 15
                /\ Result(key).schema[df.columns[i]].type = "other"

OneOrTwo == {Num(1), Num(2), Str("1"), Str("2")}

OneToFive == {Num(n) : n \in 1..5}

\* C8: a categorical column carries at most one note: the 1=Yes, 2=No note
\* when its distinct values are among 1 and 2, as numbers or as text; else
\* the Likert note when they are among the numbers 1..5; else none.  A
\* column of any other type carries no note.
C8_Assumptions ==
    \A key \in Calls : HasResult(key) =>
        LET df == Result(key).clean_df
        IN  \A i \in 1..Len(df.columns) :
                LET profile == Result(key).schema[df.columns[i]]
                    vals == NonBlank(df, i)
                IN  IF profile.type = "categorical"
                      THEN profile.assumptions =
                              IF vals \subseteq OneOrTwo
                                THEN <<"Assumed 1=Yes, 2=No">>
                              ELSE IF vals \subseteq OneToFive
                                THEN <<"Treated as Likert scale">>
                              ELSE <<>>
                      ELSE profile.assumptions = <<>>

\* a categorical column whose values are among the numbers 1..5 and not
\* among 1 and 2, carrying the Likert note
C8_Witness ==
    \E key \in Calls : HasResult(key) /\
        \E col \in DOMAIN Result(key).schema :
            /\ Result(key).schema[col].type = "categorical"
            /\ Result(key).schema[col].assumptions = <<"Treated as Likert scale">>

NumericNoMarker(df, i) ==
    /\ df.dtypes[i] \in {"int64", "float64"}
    /\ ~HasLatMarker(df.columns[i])
    /\ ~HasLonMarker(df.columns[i])

OutOfRange(df, i) == {c \in NonBlank(df, i) : c.v < 0 \/ c.v > 100}

\* C9 as stated: a numeric column without GPS marker is percentage when all
\* its values are within [0,100], and numeric otherwise, that is exactly when
\* some value is below 0 or above 100.
C9_NumericIffOutOfRange ==
    \A key \in Calls : HasResult(key) =>
        LET df == Result(key).clean_df
        IN  \A i \in 1..Len(df.columns) : NumericNoMarker(df, i) =>
                LET type == Result(key).schema[df.columns[i]].type
                IN  /\ type \in {"percentage", "numeric"}
                    /\ type = "numeric" <=> OutOfRange(df, i) # {}

\* C9 amended: percentage when the column has at least one non-blank value
\* and all of them are within [0,100] inclusive; numeric otherwise, that is
\* when some value is out of the range or the column has no value at all.
C9_PercentageNeedsAValue ==
    \A key \in Calls : HasResult(key) =>
        LET df == Result(key).clean_df
        IN  \A i \in 1..Len(df.columns) : NumericNoMarker(df, i) =>
                LET type == Result(key).schema[df.columns[i]].type
                IN  /\ type \in {"percentage", "numeric"}
                    /\ type = "percentage"
                          <=> (NonBlank(df, i) # {} /\ OutOfRange(df, i) = {})

\* a numeric column holding 100, typed percentage
C9_Witness ==
    \E key \in Calls : HasResult(key) /\
        LET df == Result(key).clean_df
        IN  \E i \in 1..Len(df.columns) :
                /\ NumericNoMarker(df, i)
                /\ Num(100) \in NonBlank(df, i)
                /\ Result(key).schema[df.columns[i]].type = "percentage"

\* C10: cleaning only removes.  The clean table's columns are the sheet's
\* columns that are no metadata name, in order; its rows are the answered
\* rows, in order, cell for cell; metadata_dropped is the number of columns
\* removed.
C10_CleaningOnlyRemoves ==
    \A key \in Calls : HasResult(key) =>
        LET sheet == Sheet_(key)
            df == Result(key).clean_df
            kept == SelectSeq(sheet.header, LAMBDA col : col \notin metadata_cols)
            answered == AnsweredRows(sheet)
        IN  /\ df.columns = kept
            /\ Len(df.rows) = Len(answered)
            /\ \A r \in 1..Len(answered) : \A j \in 1..Len(kept) :
                  df.rows[r][j] = answered[r][IndexOf(sheet.header, kept[j])]
            /\ Result(key).metadata_dropped = Len(sheet.header) - Len(kept)

\* a sheet that loses a row and a column and keeps a row with a blank cell
C10_Witness ==
    \E key \in Calls :
        /\ HasResult(key)
        /\ Len(Result(key).clean_df.rows) = 1
        /\ Len(Sheet_(key).rows) = 2
        /\ Result(key).metadata_dropped = 1
        /\ \E j \in 1..Len(Result(key).clean_df.columns) :
              Result(key).clean_df.rows[1][j] = NaN

====
